---- MODULE Spec2Model ----
(***************************************************************************)
(* Model of the MPL3115A2 driver (package mpl3115a2): the register/bit     *)
(* encoders, the fixed-point decoders and the measurement protocol, as a   *)
(* state machine whose steps are the driver's bus operations.              *)
(*                                                                         *)
(* A caller is one goroutine using the (stateless) sensor handle; busOf    *)
(* is the i2c handle it passes to every call.  reg holds, per bus, the     *)
(* value last latched by each register the driver writes.  log is the bus  *)
(* trace of the caller's current call, ret what that call returned.        *)
(* Physical values (float32 in the source) are kept in sixteenths, which   *)
(* is exact for every value the decoders can produce.                      *)
(***************************************************************************)
EXTENDS Integers, Sequences, FiniteSets, TLC

\* ---------------------------------------------------------------- bounds
\* Not-ready STATUS polls recorded per call; later not-ready polls of the
\* same call still happen but are not appended to the trace: skipped is
\* their number modulo 2 while the polling loop runs.
MaxPolls == 3
\* the widest arguments of a single call: the pressure offset in Pa, the
\* temperature offset in 1/32 degree, the oversample ratio, and the number
\* of sea-level pressures tried, SeaStep Pa apart
MaxShiftPa == 520
MaxShiftTemp == 264
MaxRatio == 12
MaxSeaSteps == 600
SeaStep == 257

\* ------------------------------------------------------------ register map
STATUS == 0
OUT_PRES_BYTES == 3
OUT_TEMP_BYTES == 2
PT_DATA_CFG == 19
BAR_IN_MSB_LSB == 20
CTRL_REG1 == 38
OFF_PRES == 43
OFF_TEMP == 44
OFF_H == 45
PRES_TEMP_DATA_READY == 8
Barometer == 1
Altimeter == 2

\* ------------------------------------------------------- byte arithmetic
RECURSIVE And(_, _)
And(a, b) ==
    IF a = 0 \/ b = 0 THEN 0
    ELSE (a % 2) * (b % 2) + 2 * And(a \div 2, b \div 2)

Or(a, b) == a + b - And(a, b)

RECURSIVE Pow2(_)
Pow2(n) == IF n = 0 THEN 1 ELSE 2 * Pow2(n - 1)

\* byte(x): conversion of an integer to uint8 (two's complement truncation)
Byte(x) == x % 256
\* a << n in an unsigned type of w bits, and a >> n
Shl(a, n, w) == (a * Pow2(n)) % Pow2(w)
Shr(a, n) == a \div Pow2(n)
\* uint32(b) << n for a byte b and n <= 10: below 2^18, so nothing is lost
Shl32(b, n) == b * Pow2(n)
\* Go's integer division, which truncates toward zero
Quot(a, b) == IF a >= 0 THEN a \div b ELSE -((-a) \div b)
\* int16(uint16) and int8(uint8) reinterpretations
Int16(u) == IF u >= 32768 THEN u - 65536 ELSE u
Int8(u) == IF u >= 128 THEN u - 256 ELSE u

\* ----------------------------------------------------------- environment
Callers == {1, 2}
Buses == {1, 2}
NoErr == "nil"
\* errors the bus collaborator can return
BusErrors == {"EIO", "ENXIO"}
Outcomes == {NoErr} \cup BusErrors
ErrOversample == "oversample ratio should be in range [0..7]"
ErrPressure == "pressure compensation exceed range [-512..+508]"
ErrTemperature == "temperature compensation exceed range [-8..+7.9375]"

\* values the STATUS register may read as
StatusBytes == {0, 4, 12}
\* 6-byte blocks the device may return: status, 3 pressure, 2 temperature
Blocks == { <<12, 1, 144, 48, 22, 64>>,
            <<12, 255, 246, 191, 240, 143>> }
\* arguments callers pass
OversampleInputs == {-1, 0, 3, 7, 8}
PressureTypes == {Barometer, Altimeter}
\* Pascals (uint32) passed to ModifySeaLevelPressure
SeaLevelInputs == {101326}
\* metres (int8) passed to CompensateAltitude
AltitudeShifts == {-50}
\* Pascals (int16) passed to CompensatePressure
PressureShifts == {-513, -512, 508, 509}
\* degrees passed to CompensateTemperature, in 1/32 degree
TemperatureShifts == {-258, -256, 254, 256}

\* registers the driver writes
WrittenRegs == {PT_DATA_CFG, BAR_IN_MSB_LSB, BAR_IN_MSB_LSB + 1,
                CTRL_REG1, OFF_PRES, OFF_TEMP, OFF_H}

VARIABLES pc, call, flags, log, ret, reg, ctrlAtRead, skipped, busOf, mutex

vars == <<pc, call, flags, log, ret, reg, ctrlAtRead, skipped, busOf, mutex>>

\* ----------------------------------------------------------- bit encoders
\* mutant of encodeCtrlOverSampleRatio: the range check missing
encodeCtrlOverSampleRatioUnchecked(oversample) ==
    [b |-> Shl(Byte(oversample), 3, 8), err |-> NoErr]

\* mutant of encodeCtrlOverSampleRatio: the ratio shifted by two bits
encodeCtrlOverSampleRatioShift2(oversample) ==
    IF oversample < 0 \/ oversample > 7
    THEN [b |-> 0, err |-> ErrOversample]
    ELSE [b |-> Shl(Byte(oversample), 2, 8), err |-> NoErr]

encodeCtrlOverSampleRatio(oversample) ==
    IF oversample < 0 \/ oversample > 7
    THEN [b |-> 0, err |-> ErrOversample]
    ELSE [b |-> Shl(Byte(oversample), 3, 8), err |-> NoErr]

encodeCtrlAltimeterMode(altimeterMode) ==
    IF altimeterMode THEN [b |-> 128, err |-> NoErr] ELSE [b |-> 0, err |-> NoErr]

\* mutant of encodeCtrlResetBit: the reset bit placed on bit 3
encodeCtrlResetBitOverlap(activateReset) ==
    [b |-> IF activateReset THEN 8 ELSE 0, err |-> NoErr]

encodeCtrlResetBit(activateReset) ==
    IF activateReset THEN [b |-> 4, err |-> NoErr] ELSE [b |-> 0, err |-> NoErr]

encodeCtrlActiveStatus(activateSensor) ==
    IF activateSensor THEN [b |-> 1, err |-> NoErr] ELSE [b |-> 0, err |-> NoErr]

\* the flags byte writeEventMode sends to PT_DATA_CFG
EventFlags(temperatureEvent, preasureEvent) ==
    LET f1 == IF temperatureEvent THEN Or(0, 1) ELSE 0
        f2 == IF preasureEvent THEN Or(f1, 2) ELSE f1
    IN  IF temperatureEvent \/ preasureEvent THEN Or(f2, 4) ELSE f2

\* ------------------------------------------------------------- decoders
\* mutant of ConvertToSignedQ16Dot4: the integer part left unsigned
ConvertToSignedQ16Dot4Unsigned(v) ==
    LET presFrac == Shr(And(v.PRES_LSB, 240), 4)
        presInt == Or(Shl(v.PRES_MSB, 8, 16), v.PRES_CSB)
    IN  [int |-> presInt, frac |-> presFrac]

ConvertToSignedQ16Dot4(v) ==
    LET presFrac == Shr(And(v.PRES_LSB, 240), 4)
        presInt == Int16(Or(Shl(v.PRES_MSB, 8, 16), v.PRES_CSB))
    IN  [int |-> presInt, frac |-> presFrac]

\* mutant of ConvertToUnsignedQ18Dot2: the fraction not masked to two bits
ConvertToUnsignedQ18Dot2Unmasked(v) ==
    LET presFrac == Shr(And(v.PRES_LSB, 240), 4)
        presInt == Or(Or(Shl32(v.PRES_MSB, 10), Shl32(v.PRES_CSB, 2)), Shr(presFrac, 2))
    IN  [int |-> presInt, frac |-> presFrac]

ConvertToUnsignedQ18Dot2(v) ==
    LET presFrac == Shr(And(v.PRES_LSB, 240), 4)
        presInt == Or(Or(Shl32(v.PRES_MSB, 10), Shl32(v.PRES_CSB, 2)), Shr(presFrac, 2))
    IN  [int |-> presInt, frac |-> And(presFrac, 3)]

\* mutant of ConvertToSignedQ8Dot4: the fraction taken from the low nibble
ConvertToSignedQ8Dot4LowNibble(v) ==
    LET tempFrac == And(v.TEMP_LSB, 15)
        tempInt == Int8(v.TEMP_MSB)
    IN  [int |-> tempInt, frac |-> tempFrac]

ConvertToSignedQ8Dot4(v) ==
    LET tempFrac == Shr(And(v.TEMP_LSB, 240), 4)
        tempInt == Int8(v.TEMP_MSB)
    IN  [int |-> tempInt, frac |-> tempFrac]

\* mutant of readDataToStruct: the leading status byte forgotten
readDataToStructNoStatus(buf) ==
    [STATUS |-> buf[1],
     RawPressure |-> [PRES_MSB |-> buf[1], PRES_CSB |-> buf[2], PRES_LSB |-> buf[3]],
     RawTemperature |-> [TEMP_MSB |-> buf[4], TEMP_LSB |-> buf[5]]]

\* binary.Read of the block into struct {STATUS; RawPressure; RawTemperature}
readDataToStruct(buf) ==
    [STATUS |-> buf[1],
     RawPressure |-> [PRES_MSB |-> buf[2], PRES_CSB |-> buf[3], PRES_LSB |-> buf[4]],
     RawTemperature |-> [TEMP_MSB |-> buf[5], TEMP_LSB |-> buf[6]]]

\* float32(int) + float32(frac)/(1<<k), in sixteenths
Sixteenths(q, k) == q.int * 16 + q.frac * (16 \div Pow2(k))

\* mutant of MeasureResult: the two pressure decoders exchanged
MeasureResultSwapped(op, up, ut) ==
    [err |-> NoErr,
     p |-> IF op = "MeasureAltitude"
           THEN Sixteenths(ConvertToUnsignedQ18Dot2(up), 2)
           ELSE Sixteenths(ConvertToSignedQ16Dot4(up), 4),
     t |-> Sixteenths(ConvertToSignedQ8Dot4(ut), 4)]

\* what MeasureAltitude / MeasurePressure return for the raw values
MeasureResult(op, up, ut) ==
    [err |-> NoErr,
     p |-> IF op = "MeasureAltitude"
           THEN Sixteenths(ConvertToSignedQ16Dot4(up), 4)
           ELSE Sixteenths(ConvertToUnsignedQ18Dot2(up), 2),
     t |-> Sixteenths(ConvertToSignedQ8Dot4(ut), 4)]

\* ------------------------------------------------------------- bus trace
\* one bus operation: the bytes sent, the count asked for, the bytes
\* received and the error returned
BusOp(op, out, n, in, err) ==
    [op |-> op, out |-> out, n |-> n, in |-> IF err = NoErr THEN in ELSE <<>>, err |-> err]

WriteRegU8(r, value, err) == BusOp("WriteRegU8", <<r, value>>, 0, <<>>, err)
ReadRegU8(r, value, err) == BusOp("ReadRegU8", <<r>>, 1, <<value>>, err)
WriteBytes(b, err) == BusOp("WriteBytes", b, 0, <<>>, err)
ReadBytes(n, data, err) == BusOp("ReadBytes", <<>>, n, data, err)

IsStatusRead(e) == e.op = "ReadRegU8" /\ e.out = <<STATUS>>
NotReady(e) == IsStatusRead(e) /\ e.err = NoErr /\ And(e.in[1], PRES_TEMP_DATA_READY) = 0
NotReadyCount(l) == Cardinality({i \in 1..Len(l) : NotReady(l[i])})

\* the trace holds the first MaxPolls not-ready polls of a call only
Unrecorded(l, e) == NotReady(e) /\ NotReadyCount(l) >= MaxPolls

\* the trace after one more bus operation
Record(l, e) == IF Unrecorded(l, e) THEN l ELSE Append(l, e)

\* the registers after a write of bytes b[2..] starting at address b[1]
Latch(rb, b) ==
    [a \in WrittenRegs |->
        IF a >= b[1] /\ a - b[1] + 2 <= Len(b) THEN b[a - b[1] + 2] ELSE rb[a]]

\* a write that succeeded latched; one that failed may or may not have
Latched(rb, b, err, landed) == IF err = NoErr \/ landed THEN Latch(rb, b) ELSE rb

Idle(c) == pc[c] \in {"idle", "done"}
NoValue == [err |-> NoErr, p |-> 0, t |-> 0]
Failure(err) == [err |-> err, p |-> 0, t |-> 0]

InitialRegs == [a \in WrittenRegs |-> 0]

Init ==
    /\ pc = [c \in Callers |-> "idle"]
    /\ call = [c \in Callers |-> [op |-> "none", arg |-> 0]]
    /\ flags = [c \in Callers |-> 0]
    /\ log = [c \in Callers |-> <<>>]
    /\ ret = [c \in Callers |-> NoValue]
    /\ reg = [b \in Buses |-> InitialRegs]
    /\ ctrlAtRead = [c \in Callers |-> -1]
    /\ skipped = [c \in Callers |-> 0]
    /\ busOf = [c \in Callers |-> c]
    /\ mutex = FALSE

\* ------------------------------------------------------- measurement call
\* the call returns err (and no values)
Return(c, err) ==
    /\ pc' = [pc EXCEPT ![c] = "done"]
    /\ ret' = [ret EXCEPT ![c] = Failure(err)]
    /\ flags' = [flags EXCEPT ![c] = 0]

OpName(pressureType) ==
    IF pressureType = Altimeter THEN "MeasureAltitude" ELSE "MeasurePressure"

\* mutants of FirstFlags: the oversample bits forgotten; the bits the device
\* already holds kept (a read-modify-write of CTRL_REG1)
FirstFlagsModeOnly(rb, pressureType, oversample) ==
    encodeCtrlAltimeterMode(pressureType = Altimeter).b

FirstFlagsKeepDevice(rb, pressureType, oversample) ==
    Or(rb[CTRL_REG1], Or(encodeCtrlAltimeterMode(pressureType = Altimeter).b,
                         encodeCtrlOverSampleRatio(oversample).b))

\* the control flags measureRaw assembles before its first write; rb, the
\* registers of the device, are not consulted
FirstFlags(rb, pressureType, oversample) ==
    Or(encodeCtrlAltimeterMode(pressureType = Altimeter).b,
       encodeCtrlOverSampleRatio(oversample).b)

\* MeasureAltitude / MeasurePressure entered; measureRaw up to its first write
MeasureBegin(c, pressureType, oversample) ==
    /\ Idle(c)
    /\ call' = [call EXCEPT ![c] = [op |-> OpName(pressureType), arg |-> oversample]]
    /\ log' = [log EXCEPT ![c] = <<>>]
    /\ ctrlAtRead' = [ctrlAtRead EXCEPT ![c] = -1]
    /\ IF encodeCtrlAltimeterMode(pressureType = Altimeter).err # NoErr
       THEN Return(c, encodeCtrlAltimeterMode(pressureType = Altimeter).err)
       ELSE IF encodeCtrlOverSampleRatio(oversample).err # NoErr
       THEN Return(c, encodeCtrlOverSampleRatio(oversample).err)
       ELSE /\ pc' = [pc EXCEPT ![c] = "ctrl1"]
            /\ flags' = [flags EXCEPT ![c] =
                            FirstFlags(reg[busOf[c]], pressureType, oversample)]
            /\ ret' = [ret EXCEPT ![c] = NoValue]
    /\ UNCHANGED <<reg, skipped, busOf, mutex>>

\* a register write of the call at position `at`, going on to `next`
CtrlWrite(c, at, next, r, value, newFlags, err, landed) ==
    /\ pc[c] = at
    /\ log' = [log EXCEPT ![c] = Record(@, WriteRegU8(r, value, err))]
    /\ reg' = [reg EXCEPT ![busOf[c]] = Latched(@, <<r, value>>, err, landed)]
    /\ IF err # NoErr
       THEN Return(c, err)
       ELSE /\ pc' = [pc EXCEPT ![c] = next]
            /\ flags' = [flags EXCEPT ![c] = newFlags]
            /\ UNCHANGED ret
    /\ UNCHANGED <<call, ctrlAtRead, skipped, busOf, mutex>>

\* measureRaw: activate Altimeter mode and set Oversample Ratio
WriteCtrlReg1First(c, err, landed) ==
    CtrlWrite(c, "ctrl1", "event", CTRL_REG1, flags[c], flags[c], err, landed)

\* measureRaw: enable events for temperature and pressure
WriteEventMode(c, err, landed) ==
    CtrlWrite(c, "event", "ctrl2", PT_DATA_CFG, EventFlags(TRUE, TRUE), flags[c],
              err, landed)

\* mutant of SecondFlags: the mode and oversample bits dropped
SecondFlagsActiveOnly(f) == encodeCtrlActiveStatus(TRUE).b

\* the flags of the second control write
SecondFlags(f) == Or(f, encodeCtrlActiveStatus(TRUE).b)

\* measureRaw: activate sensor
WriteCtrlReg1Second(c, err, landed) ==
    CtrlWrite(c, "ctrl2", "poll", CTRL_REG1, SecondFlags(flags[c]),
              SecondFlags(flags[c]), err, landed)

\* mutant of DataReady: any status bit ends the polling
DataReadyAnyBit(status) == status # 0

\* whether the polling loop breaks on this status
DataReady(status) == And(status, PRES_TEMP_DATA_READY) # 0

\* mutant of ReadStatusReg: the loop gives up after two polls that found the
\* device not ready
ReadStatusRegBounded(c, status, err) ==
    /\ pc[c] = "poll"
    /\ log' = [log EXCEPT ![c] = Record(@, ReadRegU8(STATUS, status, err))]
    /\ skipped' = [skipped EXCEPT ![c] =
                      IF Unrecorded(log[c], ReadRegU8(STATUS, status, err))
                      THEN 1 - @ ELSE 0]
    /\ IF err # NoErr
       THEN Return(c, err)
       ELSE IF ~DataReady(status) /\ NotReadyCount(log[c]) >= 2
       THEN Return(c, "timeout")
       ELSE /\ pc' = [pc EXCEPT ![c] = IF DataReady(status) THEN "addr" ELSE "poll"]
            /\ UNCHANGED <<flags, ret>>
    /\ UNCHANGED <<call, reg, ctrlAtRead, busOf, mutex>>

\* measureRaw: one turn of the polling loop (sleep, readStatusReg, test)
ReadStatusReg(c, status, err) ==
    /\ pc[c] = "poll"
    /\ log' = [log EXCEPT ![c] = Record(@, ReadRegU8(STATUS, status, err))]
    /\ skipped' = [skipped EXCEPT ![c] =
                      IF Unrecorded(log[c], ReadRegU8(STATUS, status, err))
                      THEN 1 - @ ELSE 0]
    /\ IF err # NoErr
       THEN Return(c, err)
       ELSE /\ pc' = [pc EXCEPT ![c] = IF DataReady(status) THEN "addr" ELSE "poll"]
            /\ UNCHANGED <<flags, ret>>
    /\ UNCHANGED <<call, reg, ctrlAtRead, busOf, mutex>>

\* mutant of WriteStatusAddr: the write's error not checked
WriteStatusAddrUnchecked(c, err) ==
    /\ pc[c] = "addr"
    /\ log' = [log EXCEPT ![c] = Record(@, WriteBytes(<<STATUS>>, err))]
    /\ pc' = [pc EXCEPT ![c] = "block"]
    /\ UNCHANGED <<flags, ret, call, reg, ctrlAtRead, skipped, busOf, mutex>>

\* readRawPressureTemperature: i2c.WriteBytes([]byte{STATUS})
WriteStatusAddr(c, err) ==
    /\ pc[c] = "addr"
    /\ log' = [log EXCEPT ![c] = Record(@, WriteBytes(<<STATUS>>, err))]
    /\ IF err # NoErr
       THEN Return(c, err)
       ELSE /\ pc' = [pc EXCEPT ![c] = "block"]
            /\ UNCHANGED <<flags, ret>>
    /\ UNCHANGED <<call, reg, ctrlAtRead, skipped, busOf, mutex>>

\* the number of bytes readRawPressureTemperature asks for
BlockLen == 1 + OUT_PRES_BYTES + OUT_TEMP_BYTES

\* readRawPressureTemperature: the block read; then the decoding of
\* MeasureAltitude / MeasurePressure and the return
ReadBlock(c, data, err) ==
    /\ pc[c] = "block"
    /\ Len(data) = BlockLen
    /\ log' = [log EXCEPT ![c] = Record(@, ReadBytes(BlockLen, data, err))]
    /\ ctrlAtRead' = [ctrlAtRead EXCEPT ![c] = reg[busOf[c]][CTRL_REG1]]
    /\ IF err # NoErr
       THEN Return(c, err)
       ELSE /\ pc' = [pc EXCEPT ![c] = "done"]
            /\ flags' = [flags EXCEPT ![c] = 0]
            /\ ret' = [ret EXCEPT ![c] =
                          MeasureResult(call[c].op,
                                        readDataToStruct(data).RawPressure,
                                        readDataToStruct(data).RawTemperature)]
    /\ UNCHANGED <<call, reg, skipped, busOf, mutex>>


\* ------------------------------------------------- single-write operations
\* a call that returns err before any bus access
Rejected(c, op, arg, err) ==
    /\ Idle(c)
    /\ call' = [call EXCEPT ![c] = [op |-> op, arg |-> arg]]
    /\ log' = [log EXCEPT ![c] = <<>>]
    /\ ctrlAtRead' = [ctrlAtRead EXCEPT ![c] = -1]
    /\ Return(c, err)
    /\ UNCHANGED <<reg, skipped, busOf, mutex>>

\* a call that is one bus write `e` of bytes b and returns retErr
SingleWrite(c, op, arg, e, b, landed, retErr) ==
    /\ Idle(c)
    /\ call' = [call EXCEPT ![c] = [op |-> op, arg |-> arg]]
    /\ log' = [log EXCEPT ![c] = Record(<<>>, e)]
    /\ reg' = [reg EXCEPT ![busOf[c]] = Latched(@, b, e.err, landed)]
    /\ ctrlAtRead' = [ctrlAtRead EXCEPT ![c] = -1]
    /\ Return(c, retErr)
    /\ UNCHANGED <<skipped, busOf, mutex>>

\* mutant of ResetResult: the write's error surfaced
ResetResultPropagated(err) == err

\* what Reset returns when its write returned err
ResetResult(err) == NoErr

Reset(c, err, landed) ==
    LET fl == encodeCtrlResetBit(TRUE) IN
    IF fl.err # NoErr
    THEN Rejected(c, "Reset", 0, fl.err)
    ELSE SingleWrite(c, "Reset", 0, WriteRegU8(CTRL_REG1, fl.b, err),
                     <<CTRL_REG1, fl.b>>, landed, ResetResult(err))

\* mutant of SeaLevelBytes: the pressure not halved
SeaLevelBytesWhole(pressureAtSeeLevel) ==
    <<BAR_IN_MSB_LSB, Byte(Shr(pressureAtSeeLevel, 8)), Byte(And(pressureAtSeeLevel, 255))>>

\* the bytes ModifySeaLevelPressure writes
SeaLevelBytes(pressureAtSeeLevel) ==
    LET half == pressureAtSeeLevel \div 2
    IN  <<BAR_IN_MSB_LSB, Byte(Shr(half, 8)), Byte(And(half, 255))>>

ModifySeaLevelPressure(c, pressureAtSeeLevel, err, landed) ==
    SingleWrite(c, "ModifySeaLevelPressure", pressureAtSeeLevel,
                WriteBytes(SeaLevelBytes(pressureAtSeeLevel), err),
                SeaLevelBytes(pressureAtSeeLevel), landed, err)

CompensateAltitude(c, shiftM, err, landed) ==
    SingleWrite(c, "CompensateAltitude", shiftM,
                WriteBytes(<<OFF_H, Byte(shiftM)>>, err),
                <<OFF_H, Byte(shiftM)>>, landed, err)

\* mutant of PressureBytes: the quotient rounded down, not toward zero
PressureBytesFloor(shiftPa) == <<OFF_PRES, Byte(shiftPa \div 4)>>

\* the bytes CompensatePressure writes; shiftPa / 4 of Go truncates
PressureBytes(shiftPa) == <<OFF_PRES, Byte(Quot(shiftPa, 4))>>

CompensatePressure(c, shiftPa, err, landed) ==
    IF shiftPa > 508 \/ shiftPa < -512
    THEN Rejected(c, "CompensatePressure", shiftPa, ErrPressure)
    ELSE SingleWrite(c, "CompensatePressure", shiftPa,
                     WriteBytes(PressureBytes(shiftPa), err),
                     PressureBytes(shiftPa), landed, err)

\* byte(x) of a float32 x = n/2: the fraction is discarded; outside 0..255
\* the result depends on the implementation, which either wraps the
\* truncated integer or saturates
FloatToByte(n) ==
    IF n >= 0 /\ Quot(n, 2) <= 255 THEN {Quot(n, 2)}
    ELSE {Byte(Quot(n, 2)), IF n < 0 THEN 0 ELSE 255}

\* the bytes CompensateTemperature writes; shiftTemp in 1/32 degree, so
\* shiftTemp * 16 is shiftTemp/2
TemperatureBytes(value) == <<OFF_PRES, value>>

CompensateTemperature(c, shiftTemp, value, err, landed) ==
    IF shiftTemp > 254 \/ shiftTemp < -256
    THEN Rejected(c, "CompensateTemperature", shiftTemp, ErrTemperature)
    ELSE SingleWrite(c, "CompensateTemperature", shiftTemp,
                     WriteBytes(TemperatureBytes(value), err),
                     TemperatureBytes(value), landed, err)

Next ==
    \/ \E t \in PressureTypes, r \in OversampleInputs : MeasureBegin(1, t, r)
    \/ \E e \in Outcomes, l \in BOOLEAN : WriteCtrlReg1First(1, e, l)
    \/ \E e \in Outcomes, l \in BOOLEAN : WriteEventMode(1, e, l)
    \/ \E e \in Outcomes, l \in BOOLEAN : WriteCtrlReg1Second(1, e, l)
    \/ \E s \in StatusBytes, e \in Outcomes : ReadStatusReg(1, s, e)
    \/ \E e \in Outcomes : WriteStatusAddr(1, e)
    \/ \E d \in Blocks, e \in Outcomes : ReadBlock(1, d, e)
    \/ \E e \in Outcomes, l \in BOOLEAN : Reset(1, e, l)
    \/ \E p \in SeaLevelInputs, e \in Outcomes, l \in BOOLEAN :
            ModifySeaLevelPressure(1, p, e, l)
    \/ \E m \in AltitudeShifts, e \in Outcomes, l \in BOOLEAN :
            CompensateAltitude(1, m, e, l)
    \/ \E p \in PressureShifts, e \in Outcomes, l \in BOOLEAN :
            CompensatePressure(1, p, e, l)
    \/ \E t \in TemperatureShifts, e \in Outcomes, l \in BOOLEAN :
            \E v \in FloatToByte(t) : CompensateTemperature(1, t, v, e, l)

Spec == Init /\ [][Next]_vars

\* ------------------------------------------------- vocabulary of the claims
IsMeasure(c) == call[c].op \in {"MeasureAltitude", "MeasurePressure"}
ValidRatio(c) == call[c].arg \in 0..7
\* M | (r << 3) of the caller's call, by arithmetic
OwnCtrl(c) == (IF call[c].op = "MeasureAltitude" THEN 128 ELSE 0) + 8 * call[c].arg
Returned(c) == pc[c] = "done"
Succeeded(c) == pc[c] = "done" /\ ret[c].err = NoErr
Failed(e) == e.err # NoErr
ReadyRead(e) == IsStatusRead(e) /\ e.err = NoErr /\ (e.in[1] \div 8) % 2 = 1
ClearRead(e) == IsStatusRead(e) /\ e.err = NoErr /\ (e.in[1] \div 8) % 2 = 0
StatusReads(l) == {i \in 1..Len(l) : IsStatusRead(l[i])}
IsAddrWrite(e) == e.op = "WriteBytes" /\ e.out = <<0>>
IsBlockRead(e) == e.op = "ReadBytes"

\* ------------------------------------------------------------- scheduling
\* a bus operation of the measurement call in progress completes
MeasureStep(c) ==
    \/ \E e \in Outcomes, l \in BOOLEAN : WriteCtrlReg1First(c, e, l)
    \/ \E e \in Outcomes, l \in BOOLEAN : WriteEventMode(c, e, l)
    \/ \E e \in Outcomes, l \in BOOLEAN : WriteCtrlReg1Second(c, e, l)
    \/ \E s \in StatusBytes, e \in Outcomes : ReadStatusReg(c, s, e)
    \/ \E e \in Outcomes : WriteStatusAddr(c, e)
    \/ \E d \in Blocks, e \in Outcomes : ReadBlock(c, d, e)

\* the device reports data ready to a poll
ReadyPoll(c) == \E s \in StatusBytes : DataReady(s) /\ ReadStatusReg(c, s, NoErr)

\* every blocking bus call returns, and the device eventually reports data
\* ready to a caller that keeps polling
MeasureNext ==
    \/ \E t \in PressureTypes, r \in OversampleInputs : MeasureBegin(1, t, r)
    \/ MeasureStep(1)

FairSpec ==
    Init /\ [][MeasureNext]_vars /\ WF_vars(MeasureStep(1)) /\ WF_vars(ReadyPoll(1))

\* the same without the assumption on the device
BusFairSpec == Init /\ [][MeasureNext]_vars /\ WF_vars(MeasureStep(1))

\* ------------------------------------------- two callers sharing one bus
ConcRatios == {0, 7}
ConcStatusBytes == {0, 12}
ConcBlocks == { <<12, 1, 144, 48, 22, 64>> }
ConcType(c) == IF c = 1 THEN Barometer ELSE Altimeter

\* both goroutines pass the same i2c handle; mutex: whether the callers
\* wrap each whole call in a lock of their own
ConcInit ==
    /\ pc = [c \in Callers |-> "idle"]
    /\ call = [c \in Callers |-> [op |-> "none", arg |-> 0]]
    /\ flags = [c \in Callers |-> 0]
    /\ log = [c \in Callers |-> <<>>]
    /\ ret = [c \in Callers |-> NoValue]
    /\ reg = [b \in Buses |-> InitialRegs]
    /\ ctrlAtRead = [c \in Callers |-> -1]
    /\ skipped = [c \in Callers |-> 0]
    /\ busOf = [c \in Callers |-> 1]
    /\ mutex \in BOOLEAN

\* the callers' lock, when they use one, is free
LockFree(c) == mutex => \A o \in Callers \ {c} : Idle(o)

ConcNext ==
    \E c \in Callers :
        \/ \E r \in ConcRatios : LockFree(c) /\ MeasureBegin(c, ConcType(c), r)
        \/ WriteCtrlReg1First(c, NoErr, TRUE)
        \/ WriteEventMode(c, NoErr, TRUE)
        \/ WriteCtrlReg1Second(c, NoErr, TRUE)
        \/ \E s \in ConcStatusBytes : ReadStatusReg(c, s, NoErr)
        \/ WriteStatusAddr(c, NoErr)
        \/ \E d \in ConcBlocks : ReadBlock(c, d, NoErr)

ConcSpec == ConcInit /\ [][ConcNext]_vars

\* ------------------------------- the same call replayed on a fresh handle
\* caller 1 does anything; once a measurement call of it has returned,
\* caller 2, on a handle and a bus nothing was done with, makes the same
\* call and is given the same bus responses
ReplayBegin ==
    /\ Returned(1) /\ IsMeasure(1) /\ pc[2] = "idle"
    /\ MeasureBegin(2, IF call[1].op = "MeasureAltitude" THEN Altimeter ELSE Barometer,
                    call[1].arg)

ReplayStep ==
    /\ pc[2] \notin {"idle", "done"}
    /\ Len(log[2]) < Len(log[1])
    /\ LET x == log[1][Len(log[2]) + 1] IN
       \/ \E l \in BOOLEAN : WriteCtrlReg1First(2, x.err, l)
       \/ \E l \in BOOLEAN : WriteEventMode(2, x.err, l)
       \/ \E l \in BOOLEAN : WriteCtrlReg1Second(2, x.err, l)
       \/ ReadStatusReg(2, IF x.in = <<>> THEN 0 ELSE x.in[1], x.err)
       \/ WriteStatusAddr(2, x.err)
       \/ ReadBlock(2, IF x.in = <<>> THEN <<0, 0, 0, 0, 0, 0>> ELSE x.in, x.err)

ReplayNext ==
    \/ pc[2] = "idle" /\ Next
    \/ ReplayBegin
    \/ ReplayStep

ReplaySpec == Init /\ [][ReplayNext]_vars

\* ---------------------------------------- one call on an untouched device
\* the first call made on a device nothing was written to, its argument
\* drawn from the whole range around the accepted one; a measurement call
\* is followed up to its first register write
WidePressureShifts == -MaxShiftPa .. MaxShiftPa
WideTemperatureShifts == -MaxShiftTemp .. MaxShiftTemp
WideRatios == -MaxRatio .. MaxRatio
WideSeaLevels == {i * SeaStep : i \in 0..MaxSeaSteps} \cup {101326, 131071, 131072}

FirstCall == pc[1] = "idle"

CallNext ==
    \/ FirstCall /\ \E t \in PressureTypes, r \in WideRatios : MeasureBegin(1, t, r)
    \/ \E e \in Outcomes, l \in BOOLEAN : WriteCtrlReg1First(1, e, l)
    \/ FirstCall /\ \E p \in WideSeaLevels, e \in Outcomes, l \in BOOLEAN :
            ModifySeaLevelPressure(1, p, e, l)
    \/ FirstCall /\ \E p \in WidePressureShifts, e \in Outcomes, l \in BOOLEAN :
            CompensatePressure(1, p, e, l)
    \/ FirstCall /\ \E t \in WideTemperatureShifts, e \in Outcomes, l \in BOOLEAN :
            \E v \in FloatToByte(t) : CompensateTemperature(1, t, v, e, l)

CallSpec == Init /\ [][CallNext]_vars

\* ------------------------------------------- the conversions on their own
\* a raw value, or the four fields of the control register, handed to one
\* conversion; call[1] holds the input and ret[1] receives the result
EdgeBytes == {0, 1, 63, 64, 127, 128, 254, 255}
AllBytes == 0..255
\* every high nibble with the low nibble all clear and all set
NibbleBytes == {16 * h + x : h \in 0..15, x \in {0, 15}}
RawPressures == {<<m, cs, l>> : m \in EdgeBytes, cs \in EdgeBytes, l \in NibbleBytes}
RawTemperatures == {<<m, l>> : m \in AllBytes, l \in NibbleBytes}
BytePairs == {<<b0, b1>> : b0 \in AllBytes, b1 \in EdgeBytes}
Orders == {o \in [1..4 -> 1..4] : \A i, j \in 1..4 : o[i] = o[j] => i = j}
FieldInputs == {<<r, a, x, s, o>> : r \in 0..7, a \in BOOLEAN, x \in BOOLEAN,
                                    s \in BOOLEAN, o \in Orders}
CodecInputs ==
    {[op |-> f, arg |-> v] :
        f \in {"ConvertToSignedQ16Dot4", "ConvertToUnsignedQ18Dot2"}, v \in RawPressures}
    \cup {[op |-> "ConvertToSignedQ8Dot4", arg |-> v] : v \in RawTemperatures}
    \cup {[op |-> "flags", arg |-> v] : v \in FieldInputs}
    \cup {[op |-> f, arg |-> v] : f \in {"getS16LE", "getU16LE"}, v \in BytePairs}

\* ---- the 2-byte extractors; int16 values are kept as integers of
\* -32768..32767, uint16 values as integers of 0..65535
getS16BE(buf) == Int16((Int16(Shl(buf[1], 8, 16)) + buf[2]) % 65536)

\* w & 0xFF is taken on the bit pattern of w; w >> 8 of an int16 is an
\* arithmetic shift, which rounds toward minus infinity
getS16LE(buf) ==
    LET w == getS16BE(buf)
    IN  Int16((Int16(Shl(And(w % 65536, 255), 8, 16)) + (w \div 256)) % 65536)

getU16BE(buf) == (Shl(buf[1], 8, 16) + buf[2]) % 65536

getU16LE(buf) ==
    LET w == getU16BE(buf)
    IN  (Shl(And(w, 255), 8, 16) + Shr(w, 8)) % 65536

RawPressure(b) == [PRES_MSB |-> b[1], PRES_CSB |-> b[2], PRES_LSB |-> b[3]]
RawTemperature(b) == [TEMP_MSB |-> b[1], TEMP_LSB |-> b[2]]

\* the four encoded bytes of a field input, and their flags |= b in order o
EncodedFields(v) ==
    <<encodeCtrlOverSampleRatio(v[1]).b, encodeCtrlAltimeterMode(v[2]).b,
      encodeCtrlResetBit(v[3]).b, encodeCtrlActiveStatus(v[4]).b>>
AssembleFlags(e, o) == Or(Or(Or(Or(0, e[o[1]]), e[o[2]]), e[o[3]]), e[o[4]])

CodecInit ==
    /\ pc = [c \in Callers |-> "idle"]
    /\ call \in {[c \in Callers |-> IF c = 1 THEN i ELSE [op |-> "none", arg |-> 0]] :
                    i \in CodecInputs}
    /\ flags = [c \in Callers |-> 0]
    /\ log = [c \in Callers |-> <<>>]
    /\ ret = [c \in Callers |-> NoValue]
    /\ reg = [b \in Buses |-> InitialRegs]
    /\ ctrlAtRead = [c \in Callers |-> -1]
    /\ skipped = [c \in Callers |-> 0]
    /\ busOf = [c \in Callers |-> c]
    /\ mutex = FALSE

Applied(c, f, result) ==
    /\ pc[c] = "idle" /\ call[c].op = f
    /\ ret' = [ret EXCEPT ![c] = result]
    /\ pc' = [pc EXCEPT ![c] = "done"]
    /\ UNCHANGED <<call, flags, log, reg, ctrlAtRead, skipped, busOf, mutex>>

ApplyQ16Dot4(c) ==
    Applied(c, "ConvertToSignedQ16Dot4", ConvertToSignedQ16Dot4(RawPressure(call[c].arg)))
ApplyQ18Dot2(c) ==
    Applied(c, "ConvertToUnsignedQ18Dot2", ConvertToUnsignedQ18Dot2(RawPressure(call[c].arg)))
ApplyQ8Dot4(c) ==
    Applied(c, "ConvertToSignedQ8Dot4", ConvertToSignedQ8Dot4(RawTemperature(call[c].arg)))
ApplyFlags(c) ==
    Applied(c, "flags", [parts |-> EncodedFields(call[c].arg),
                         b |-> AssembleFlags(EncodedFields(call[c].arg), call[c].arg[5])])

ApplyS16LE(c) == Applied(c, "getS16LE", getS16LE(call[c].arg))
ApplyU16LE(c) == Applied(c, "getU16LE", getU16LE(call[c].arg))

CodecNext ==
    \/ ApplyQ16Dot4(1)
    \/ ApplyQ18Dot2(1)
    \/ ApplyQ8Dot4(1)
    \/ ApplyFlags(1)
    \/ ApplyS16LE(1)
    \/ ApplyU16LE(1)

CodecSpec == CodecInit /\ [][CodecNext]_vars

\* C1: in a measurement call with oversample ratio r in 0..7 the first three
\* bus operations are, in order, the writes CTRL_REG1 := M | (r << 3),
\* PT_DATA_CFG := 0x07 and CTRL_REG1 := M | (r << 3) | 0x01 (M = 0x80 for
\* MeasureAltitude, 0x00 for MeasurePressure); polling does not start and
\* the call does not succeed before all three were issued.
C1_ConfigWrites ==
    \A c \in Callers : IsMeasure(c) /\ ValidRatio(c) =>
        LET l == log[c] IN
        /\ Len(l) >= 1 => l[1].op = "WriteRegU8" /\ l[1].out = <<38, OwnCtrl(c)>>
        /\ Len(l) >= 2 => l[2].op = "WriteRegU8" /\ l[2].out = <<19, 7>>
        /\ Len(l) >= 3 => l[3].op = "WriteRegU8" /\ l[3].out = <<38, OwnCtrl(c) + 1>>
        /\ (pc[c] \in {"poll", "addr", "block"} \/ Succeeded(c)) =>
              Len(l) >= 3 /\ \A i \in 1..3 : ~Failed(l[i])

C1_Witness ==
    /\ call[1] = [op |-> "MeasureAltitude", arg |-> 3]
    /\ Succeeded(1)
    /\ log[1][1].out = <<38, 152>>
    /\ log[1][3].out = <<38, 153>>

\* C2: the address write and the block read of a measurement call come
\* only after a STATUS read of that call returned bit 0x08 set; a STATUS read
\* that succeeds with bit 0x08 clear is followed by another STATUS read; the
\* first STATUS read with bit 0x08 set is the last STATUS read of the call;
\* and at least one STATUS read precedes the block read.
C2_Polling ==
    \A c \in Callers : IsMeasure(c) =>
        LET l == log[c] IN
        /\ \A i \in 1..Len(l) :
              /\ (IsAddrWrite(l[i]) \/ IsBlockRead(l[i])) =>
                    \E j \in 1..(i - 1) : ReadyRead(l[j])
              /\ ClearRead(l[i]) =>
                    IF i < Len(l) THEN IsStatusRead(l[i + 1]) ELSE pc[c] = "poll"
              /\ ReadyRead(l[i]) => \A j \in (i + 1)..Len(l) : ~IsStatusRead(l[j])
        /\ pc[c] \in {"addr", "block"} => ReadyRead(l[Len(l)]) \/ IsAddrWrite(l[Len(l)])
        /\ pc[c] = "poll" => \A i \in 1..Len(l) : ~ReadyRead(l[i])

\* the status sequence 0x00, 0x00, 0x0C: exactly three STATUS reads
C2_Witness ==
    /\ Succeeded(1) /\ IsMeasure(1)
    /\ Len(log[1]) = 8
    /\ StatusReads(log[1]) = {4, 5, 6}
    /\ log[1][4].in = <<0>> /\ log[1][5].in = <<0>> /\ log[1][6].in = <<12>>

\* C3: after the ready STATUS read a measurement call issues one write of
\* the single byte [0x00] immediately followed by one read of 6 bytes (the
\* sum of the declared widths 1 + 3 + 2) and nothing after it; byte 1 of the
\* block is ignored, bytes 2..4 are the pressure MSB, CSB, LSB and bytes
\* 5..6 the temperature MSB, LSB.
C3_BlockRead ==
    \A c \in Callers : IsMeasure(c) =>
        LET l == log[c] IN
        /\ \A i \in 1..Len(l) :
              /\ IsAddrWrite(l[i]) => i > 1 /\ ReadyRead(l[i - 1])
              /\ IsBlockRead(l[i]) =>
                    /\ i > 1 /\ IsAddrWrite(l[i - 1]) /\ ~Failed(l[i - 1])
                    /\ i = Len(l) /\ Returned(c)
                    /\ l[i].n = 6 /\ l[i].n = 1 + OUT_PRES_BYTES + OUT_TEMP_BYTES
                    /\ ~Failed(l[i]) => Len(l[i].in) = 6
              /\ l[i].op = "WriteBytes" => IsAddrWrite(l[i])
        /\ Cardinality({i \in 1..Len(l) : l[i].op = "WriteBytes"}) <= 1
        /\ Cardinality({i \in 1..Len(l) : IsBlockRead(l[i])}) <= 1
        /\ Succeeded(c) =>
              /\ Len(l) >= 2 /\ IsBlockRead(l[Len(l)])
              /\ LET d == l[Len(l)].in
                     msb == IF call[c].op = "MeasureAltitude"
                            THEN ((ret[c].p \div 16) % 65536) \div 256
                            ELSE ret[c].p \div 16384
                     csb == IF call[c].op = "MeasureAltitude"
                            THEN (ret[c].p \div 16) % 256
                            ELSE (ret[c].p \div 64) % 256
                     lsb == IF call[c].op = "MeasureAltitude"
                            THEN ret[c].p % 16
                            ELSE (ret[c].p \div 4) % 16
                 IN  /\ msb = d[2] /\ csb = d[3] /\ lsb = d[4] \div 16
                     /\ (ret[c].t \div 16) % 256 = d[5]
                     /\ ret[c].t % 16 = d[6] \div 16

C3_Witness ==
    /\ Succeeded(1) /\ IsMeasure(1)
    /\ Len(log[1]) = 6
    /\ IsAddrWrite(log[1][5]) /\ IsBlockRead(log[1][6])
    /\ log[1][6].in = <<12, 255, 246, 191, 240, 143>>

\* C4: in every public operation other than Reset, a bus operation that
\* fails is the last bus operation of the call, the call returns exactly
\* that error, and a measurement returns the values (0, 0) with it.
C4_BusFailure ==
    \A c \in Callers : call[c].op # "Reset" =>
        \A i \in 1..Len(log[c]) : Failed(log[c][i]) =>
            /\ i = Len(log[c])
            /\ Returned(c)
            /\ ret[c] = [err |-> log[c][i].err, p |-> 0, t |-> 0]

C4_Witness ==
    /\ call[1].op = "MeasurePressure" /\ Returned(1)
    /\ Len(log[1]) = 7
    /\ IsBlockRead(log[1][7]) /\ log[1][7].err = "ENXIO"
    /\ ret[1] = [err |-> "ENXIO", p |-> 0, t |-> 0]

InvalidCall(cl) ==
    \/ cl.op \in {"MeasureAltitude", "MeasurePressure"} /\ cl.arg \notin 0..7
    \/ cl.op = "CompensatePressure" /\ (cl.arg > 508 \/ cl.arg < -512)
    \/ cl.op = "CompensateTemperature" /\ (cl.arg > 254 \/ cl.arg < -256)
RangeError(cl) ==
    IF cl.op = "CompensatePressure" THEN ErrPressure
    ELSE IF cl.op = "CompensateTemperature" THEN ErrTemperature
    ELSE ErrOversample
Local(c) == <<pc[c], call[c], log[c], ret[c]>>

C6_ResetSwallows ==
    \A c \in Callers : Returned(c) =>
        /\ call[c].op = "Reset" =>
              /\ Len(log[c]) = 1
              /\ log[c][1].op = "WriteRegU8" /\ log[c][1].out = <<38, 4>>
              /\ ret[c].err = NoErr
        /\ (ret[c].err = NoErr /\ \E i \in 1..Len(log[c]) : Failed(log[c][i])) =>
              call[c].op = "Reset"

C6_Witness ==
    /\ call[1].op = "Reset" /\ Returned(1)
    /\ Failed(log[1][1]) /\ ret[1].err = NoErr

\* C8: MeasurePressure returns the Q18.2 decoding of the 3 pressure bytes
\* (integer + fraction/4), MeasureAltitude the signed Q16.4 decoding
\* (integer + fraction/16), both the signed Q8.4 decoding of the 2
\* temperature bytes; values in sixteenths.
C8_Decoding ==
    \A c \in Callers : IsMeasure(c) /\ Succeeded(c) =>
        LET d == log[c][Len(log[c])].in
            u16 == d[2] * 256 + d[3]
        IN  /\ ret[c].t = (IF d[5] >= 128 THEN d[5] - 256 ELSE d[5]) * 16 + d[6] \div 16
            /\ call[c].op = "MeasurePressure" =>
                  ret[c].p = (d[2] * 1024 + d[3] * 4 + d[4] \div 64) * 16
                             + ((d[4] \div 16) % 4) * 4
            /\ call[c].op = "MeasureAltitude" =>
                  ret[c].p = (IF u16 >= 32768 THEN u16 - 65536 ELSE u16) * 16
                             + d[4] \div 16

\* status polls 0x00, 0x00, 0x0C and block [0C 01 90 30 16 40]:
\* pressure 1600 + 3/4 and temperature 22 + 4/16
C8_Witness ==
    /\ call[1].op = "MeasurePressure" /\ Succeeded(1)
    /\ Len(log[1]) = 8
    /\ log[1][4].in = <<0>> /\ log[1][5].in = <<0>> /\ log[1][6].in = <<12>>
    /\ log[1][8].in = <<12, 1, 144, 48, 22, 64>>
    /\ ret[1].p = 1600 * 16 + 12 /\ ret[1].t = 22 * 16 + 4

Running(c) == pc[c] \notin {"idle", "done"}
Last(l) == l[Len(l)]

\* every call in progress eventually returns.  Under BusFairSpec, which
\* does not assume that the device ever reports data ready, this fails: the
\* call polls a never-ready STATUS register forever.
EventuallyReturns == \A c \in Callers : Running(c) ~> Returned(c)

\* C7: under the fairness of FairSpec (the device eventually reports data
\* ready) a measurement call in progress eventually returns; a call with a
\* valid ratio returns only after a bus operation failed or a STATUS read
\* returned bit 0x08 set; and the polling loop has no bound of its own: a
\* poll leaves the loop only by a failure (to the return) or by a ready
\* status (to the block read), and another poll is always possible.
C7_PollingTermination ==
    /\ EventuallyReturns
    /\ [](\A c \in Callers : IsMeasure(c) /\ ValidRatio(c) /\ Returned(c) =>
            \E i \in 1..Len(log[c]) : Failed(log[c][i]) \/ ReadyRead(log[c][i]))
    /\ [][\A c \in Callers : pc[c] = "poll" =>
            \/ pc'[c] = "poll" /\ ret'[c] = ret[c]
            \/ pc'[c] = "addr" /\ ReadyRead(Last(log'[c]))
            \/ /\ pc'[c] = "done" /\ Len(log'[c]) = Len(log[c]) + 1
               /\ Failed(Last(log'[c])) /\ ret'[c].err = Last(log'[c]).err]_vars
    /\ [](\A c \in Callers : pc[c] = "poll" => ENABLED ReadStatusReg(c, 0, NoErr))

\* a call that returned after MaxPolls polls that found the device not ready
C7_Witness ==
    /\ IsMeasure(1) /\ Succeeded(1)
    /\ NotReadyCount(log[1]) = MaxPolls
    /\ ReadyRead(log[1][Len(log[1]) - 2])

\* C9: when the callers run whole calls under mutual exclusion, every
\* block read happens while the value last written to CTRL_REG1 is the
\* reading caller's own M | (r << 3) | 0x01.  (Without it, see C9_Witness,
\* a caller's block read can happen under the other caller's bits.)
C9_SerializedReads ==
    mutex => \A c \in Callers : ctrlAtRead[c] # -1 => ctrlAtRead[c] = OwnCtrl(c) + 1

\* no lock: caller 1 (MeasurePressure) did its block read while CTRL_REG1
\* held the mode and oversample bits of caller 2 (MeasureAltitude)
C9_Witness ==
    /\ ~mutex
    /\ busOf[1] = busOf[2]
    /\ call[1].op = "MeasurePressure" /\ call[2].op = "MeasureAltitude"
    /\ call[1].arg # call[2].arg
    /\ Succeeded(1)
    /\ ctrlAtRead[1] = OwnCtrl(2) + 1

Issued(e) == <<e.op, e.out, e.n>>

\* C10: a measurement call given the same mode, oversample ratio and bus
\* responses issues the same bus operations and returns the same values
\* whatever was done with the handle before (caller 2 replays, on a fresh
\* handle, the call caller 1 made after any history); and every successful
\* measurement made its own three configuration writes, polling and block
\* read, the values returned being those of that block.
C10_NoCarriedState ==
    /\ pc[2] # "idle" =>
          /\ call[2] = call[1]
          /\ Len(log[2]) <= Len(log[1])
          /\ \A k \in 1..Len(log[2]) : Issued(log[2][k]) = Issued(log[1][k])
          /\ Returned(2) => Len(log[2]) = Len(log[1]) /\ ret[2] = ret[1]
          /\ Running(2) => Len(log[2]) < Len(log[1])
    /\ \A c \in Callers : IsMeasure(c) /\ Succeeded(c) =>
          LET l == log[c] IN
          /\ Len(l) >= 6
          /\ \A i \in 1..3 : l[i].op = "WriteRegU8" /\ ~Failed(l[i])
          /\ \A i \in 4..(Len(l) - 2) : IsStatusRead(l[i])
          /\ IsAddrWrite(l[Len(l) - 1])
          /\ IsBlockRead(Last(l)) /\ ~Failed(Last(l))
          /\ (ret[c].t \div 16) % 256 = Last(l).in[5]

\* caller 1 measured after other operations (its registers show them);
\* caller 2 replayed the call on the fresh handle with the same outcome
C10_Witness ==
    /\ Succeeded(2) /\ ret[2] = ret[1] /\ ret[2].p # 0
    /\ log[2] = log[1]
    /\ reg[busOf[1]][43] = 127 /\ reg[busOf[1]][45] # 0
    /\ reg[busOf[2]][43] = 0

\* C11: CompensateTemperature with an in-range offset issues exactly one bus
\* write, whose address byte is OFF_TEMP (0x2C), and never writes OFF_PRES
\* (0x2B).  The code addresses OFF_PRES: this statement is violated.
C11_TemperatureRegister ==
    \A c \in Callers :
        Returned(c) /\ call[c].op = "CompensateTemperature" /\ ~InvalidCall(call[c]) =>
            /\ Len(log[c]) = 1
            /\ log[c][1].op = "WriteBytes"
            /\ log[c][1].out[1] = 44
            /\ log[c][1].out[1] # 43

\* C12: CompensatePressure(s) is accepted exactly for s in [-512,+508]; it
\* then issues one write of [OFF_PRES, b] where b, read as a signed byte, is
\* s / 4 truncated toward zero, a value of [-128,127] that did not wrap
\* (508 gives 0x7F, -512 gives 0x80); outside the range, 509 and -513
\* included, it returns the range error and writes nothing.
C12_PressureOffset ==
    \A c \in Callers :
        Returned(c) /\ call[c].op = "CompensatePressure" =>
            LET s == call[c].arg IN
            IF s >= -512 /\ s <= 508
            THEN /\ Len(log[c]) = 1
                 /\ log[c][1].op = "WriteBytes"
                 /\ Len(log[c][1].out) = 2
                 /\ log[c][1].out[1] = 43
                 /\ ret[c].err = log[c][1].err
                 /\ ret[c].err # ErrPressure
                 /\ LET q == Int8(log[c][1].out[2]) IN
                    /\ q \in -128..127
                    /\ IF s >= 0 THEN 4 * q <= s /\ s < 4 * q + 4
                                 ELSE 4 * q >= s /\ s > 4 * q - 4
                 /\ (s = 508 => log[c][1].out[2] = 127)
                 /\ (s = -512 => log[c][1].out[2] = 128)
            ELSE /\ log[c] = <<>>
                 /\ ret[c].err = ErrPressure

C12_Witness ==
    /\ Returned(1) /\ call[1] = [op |-> "CompensatePressure", arg |-> -512]
    /\ ret[1].err = NoErr
    /\ log[1][1].out = <<43, 128>>
    /\ reg[1][43] = 128

\* C13 as stated: ModifySeaLevelPressure(p) issues exactly one write of the
\* three bytes [BAR_IN, hi, lo] with hi:lo, read big-endian, equal to p div 2
\* for every p.  Violated from p = 131072 on, where p div 2 needs 17 bits.
C13_Original ==
    \A c \in Callers :
        Returned(c) /\ call[c].op = "ModifySeaLevelPressure" =>
            /\ Len(log[c]) = 1
            /\ log[c][1].op = "WriteBytes"
            /\ Len(log[c][1].out) = 3
            /\ log[c][1].out[1] = 20
            /\ log[c][1].out[2] * 256 + log[c][1].out[3] = call[c].arg \div 2

\* C13: ModifySeaLevelPressure(p) validates nothing and issues exactly one
\* write of the three bytes [BAR_IN, hi, lo], where hi:lo, read big-endian,
\* is the low 16 bits of p div 2; it equals p div 2 exactly when
\* p <= 131071, and p = 101326 writes [0x14, 0xC5, 0xE7].
C13_SeaLevel ==
    \A c \in Callers :
        Returned(c) /\ call[c].op = "ModifySeaLevelPressure" =>
            LET p == call[c].arg
                out == log[c][1].out
            IN  /\ Len(log[c]) = 1
                /\ log[c][1].op = "WriteBytes"
                /\ ret[c].err = log[c][1].err
                /\ Len(out) = 3
                /\ out[1] = 20
                /\ out[2] \in 0..255 /\ out[3] \in 0..255
                /\ out[2] * 256 + out[3] = (p \div 2) % 65536
                /\ (out[2] * 256 + out[3] = p \div 2 <=> p <= 131071)
                /\ (p = 101326 => out = <<20, 197, 231>>)

C13_Witness ==
    /\ Returned(1) /\ call[1] = [op |-> "ModifySeaLevelPressure", arg |-> 131072]
    /\ ret[1].err = NoErr
    /\ log[1][1].out = <<20, 0, 0>>

C18_OversampleRoundTrip ==
    \A c \in Callers :
        IsMeasure(c) /\ pc[c] # "idle" =>
            LET r == call[c].arg
                M == IF call[c].op = "MeasureAltitude" THEN 128 ELSE 0
                b == IF log[c] = <<>> THEN flags[c] - M ELSE log[c][1].out[2] - M
            IN  IF r \in 0..7
                THEN /\ ret[c].err # ErrOversample
                     /\ log[c] = <<>> => pc[c] = "ctrl1"
                     /\ log[c] # <<>> =>
                            log[c][1].op = "WriteRegU8" /\ log[c][1].out[1] = 38
                     /\ b \in 0..255
                     /\ (b \div 8) % 8 = r
                     /\ And(b, 255 - 56) = 0
                ELSE /\ Returned(c)
                     /\ ret[c].err = ErrOversample
                     /\ log[c] = <<>>
                     /\ reg[busOf[c]] = InitialRegs

C18_Witness ==
    /\ pc[1] = "event"
    /\ call[1] = [op |-> "MeasurePressure", arg |-> 7]
    /\ log[1][1].out = <<38, 56>>
    /\ reg[1][38] = 56

\* C14: for every three raw bytes b0, b1, b2 ConvertToUnsignedQ18Dot2 returns
\* the integer b0 * 1024 + b1 * 4 + (b2 >> 6), a value of [0, 262143], and
\* the fraction (b2 >> 4) & 3, a value of [0, 3]; both depend on b2 through
\* its high four bits only.
C14_UnsignedQ18Dot2 ==
    \A c \in Callers :
        Returned(c) /\ call[c].op = "ConvertToUnsignedQ18Dot2" =>
            LET b == call[c].arg IN
            /\ ret[c].int = b[1] * 1024 + b[2] * 4 + (b[3] \div 64)
            /\ ret[c].int \in 0..262143
            /\ ret[c].frac = (b[3] \div 16) % 4
            /\ ret[c].frac \in 0..3

C14_Witness ==
    /\ Returned(1) /\ call[1] = [op |-> "ConvertToUnsignedQ18Dot2", arg |-> <<255, 255, 255>>]
    /\ ret[1] = [int |-> 262143, frac |-> 3]

\* C15: for every three raw bytes b0, b1, b2 ConvertToSignedQ16Dot4 returns
\* as integer the 16-bit two's-complement reading of b0 * 256 + b1 and as
\* fraction b2 >> 4, a value of [0, 15]; the low four bits of b2 have no
\* influence.
C15_SignedQ16Dot4 ==
    \A c \in Callers :
        Returned(c) /\ call[c].op = "ConvertToSignedQ16Dot4" =>
            LET b == call[c].arg
                u == b[1] * 256 + b[2]
            IN  /\ ret[c].int = IF u >= 32768 THEN u - 65536 ELSE u
                /\ ret[c].int \in -32768..32767
                /\ ret[c].frac = b[3] \div 16
                /\ ret[c].frac \in 0..15

C15_Witness ==
    /\ Returned(1) /\ call[1] = [op |-> "ConvertToSignedQ16Dot4", arg |-> <<255, 254, 207>>]
    /\ ret[1] = [int |-> -2, frac |-> 12]

\* C16: for every two raw bytes b0, b1 ConvertToSignedQ8Dot4 returns as
\* integer b0 read as a signed 8-bit value and as fraction b1 >> 4; it is
\* defined on every input, and the low four bits of b1 have no influence.
C16_SignedQ8Dot4 ==
    \A c \in Callers :
        Returned(c) /\ call[c].op = "ConvertToSignedQ8Dot4" =>
            LET b == call[c].arg IN
            /\ ret[c].int = IF b[1] >= 128 THEN b[1] - 256 ELSE b[1]
            /\ ret[c].int \in -128..127
            /\ ret[c].frac = b[2] \div 16
            /\ ret[c].frac \in 0..15

C16_Witness ==
    /\ Returned(1) /\ call[1] = [op |-> "ConvertToSignedQ8Dot4", arg |-> <<240, 143>>]
    /\ ret[1] = [int |-> -16, frac |-> 8]

\* C19: the bytes the four encoders return lie inside the pairwise disjoint
\* masks 0x38 (oversample), 0x80 (altimeter mode), 0x04 (reset) and 0x01
\* (active); OR-ed together in any order they give the same byte, from
\* which the ratio, the mode, the reset and the active flag are read back.
C19_FieldsCompose ==
    \A c \in Callers :
        Returned(c) /\ call[c].op = "flags" =>
            LET v == call[c].arg
                masks == <<56, 128, 4, 1>>
                bit(x) == IF x THEN 1 ELSE 0
                b == ret[c].b
            IN  /\ \A i, j \in 1..4 : i # j => And(masks[i], masks[j]) = 0
                /\ \A i \in 1..4 : And(ret[c].parts[i], 255 - masks[i]) = 0
                /\ b = 8 * v[1] + 128 * bit(v[2]) + 4 * bit(v[3]) + bit(v[4])
                /\ (b \div 8) % 8 = v[1]
                /\ (b \div 128) % 2 = bit(v[2])
                /\ (b \div 4) % 2 = bit(v[3])
                /\ b % 2 = bit(v[4])

C19_Witness ==
    /\ Returned(1) /\ call[1].op = "flags"
    /\ call[1].arg[1] = 5 /\ call[1].arg[2] /\ call[1].arg[3] /\ call[1].arg[4]
    /\ call[1].arg[5] = <<4, 3, 1, 2>>
    /\ ret[1].b = 173

IsCtrlWrite(e) == e.op = "WriteRegU8" /\ e.out[1] = 38

\* the CTRL_REG1 writes of a measurement call are its first and its third
\* bus operation; the first has the active bit clear, the third has it set,
\* and once the third succeeded the device holds it
ActiveBitOfCall ==
    \A c \in Callers :
        IsMeasure(c) =>
            /\ \A i \in 1..Len(log[c]) : IsCtrlWrite(log[c][i]) <=> i \in {1, 3}
            /\ Len(log[c]) >= 1 => log[c][1].out[2] % 2 = 0
            /\ Len(log[c]) >= 3 => log[c][3].out[2] % 2 = 1
            /\ Len(log[c]) >= 3 /\ log[c][3].err = NoErr =>
                    /\ reg[busOf[c]][38] = log[c][3].out[2]
                    /\ reg[busOf[c]][38] % 2 = 1

\* the value CTRL_REG1 holds changes only in a step that issues a write to
\* CTRL_REG1
CtrlKeptBetweenWrites ==
    \A b \in Buses :
        reg'[b][38] # reg[b][38] =>
            \E c \in Callers :
                /\ busOf[c] = b
                /\ Local(c)' # Local(c) \/ pc[c] = "done"
                /\ log'[c] # <<>>
                /\ IsCtrlWrite(Last(log'[c]))
                /\ reg'[b][38] = Last(log'[c]).out[2]

\* C20: the first CTRL_REG1 write of every measurement call has the active
\* bit clear, also when an earlier call left the sensor active; a
\* measurement call writes CTRL_REG1 only twice and the second write, its
\* last, has the active bit set; after a measurement call whose second
\* control write succeeded, CTRL_REG1 holds the active bit until the next
\* operation writes CTRL_REG1.
C20_ActiveBitLifecycle == []ActiveBitOfCall /\ [][CtrlKeptBetweenWrites]_vars

C20_Witness ==
    /\ Returned(1) /\ IsMeasure(1)
    /\ Len(log[1]) = 1 /\ log[1][1].err = "EIO"
    /\ log[1][1].out[2] % 2 = 0
    /\ reg[1][38] % 2 = 1

\* C21: over any sequence of operations, a byte written to CTRL_REG1 has the
\* reset bit 0x04 set if and only if Reset issued the write; only Reset and
\* the measurement calls write CTRL_REG1; every byte a measurement call
\* writes there has the bits 0x46 clear, and the byte Reset writes is
\* exactly 0x04.
C21_ResetBit ==
    \A c \in Callers :
        \A i \in 1..Len(log[c]) :
            IsCtrlWrite(log[c][i]) =>
                LET value == log[c][i].out[2] IN
                /\ call[c].op = "Reset" \/ IsMeasure(c)
                /\ (value \div 4) % 2 = 1 <=> call[c].op = "Reset"
                /\ IsMeasure(c) => And(value, 70) = 0
                /\ call[c].op = "Reset" => value = 4 /\ Len(log[c]) = 1

C21_Witness ==
    /\ Returned(1) /\ call[1].op = "Reset"
    /\ log[1][1].out = <<38, 4>> /\ log[1][1].err = NoErr
    /\ reg[1][38] = 4
    /\ reg[1][19] = 7

\* C22: for every byte pair (b0, b1) getS16LE returns the 16-bit
\* two's-complement reading of b1 * 256 + b0 and getU16LE returns
\* b1 * 256 + b0.  getS16LE sign-extends b0 when it swaps the bytes: this
\* statement is violated.
C22_LittleEndian ==
    \A c \in Callers :
        LET b == call[c].arg IN
        /\ Returned(c) /\ call[c].op = "getS16LE" =>
                ret[c] = IF b[2] * 256 + b[1] >= 32768
                         THEN b[2] * 256 + b[1] - 65536
                         ELSE b[2] * 256 + b[1]
        /\ Returned(c) /\ call[c].op = "getU16LE" =>
                ret[c] = b[2] * 256 + b[1]

====
